---- MODULE Spec2Model ----
(***************************************************************************)
(* Model of src/terraform/migrate_tf_resources.py: the script that moves   *)
(* resource records from the tfstate of a source root module to the        *)
(* tfstate of a destination root module.                                   *)
(*                                                                         *)
(* A string is a sequence of one-character strings, so that                *)
(* str.startswith, str.strip and string concatenation are computed on the  *)
(* characters.  A tfstate document is the set of resource addresses that   *)
(* `terraform state list` prints for it.  One action models one step of    *)
(* main(): each external command the script runs is one step, and its      *)
(* exit code is chosen by the environment.                                 *)
(***************************************************************************)
EXTENDS Integers, Sequences, FiniteSets, TLC

\* ------------------------------------------------------------------ bounds
\* Largest number of lines in the resources file.
MaxLines == 2

\* ------------------------------------------------------- strings, addresses
aws_instance_web ==
    <<"a","w","s","_","i","n","s","t","a","n","c","e",".","w","e","b">>

aws_instance ==
    <<"a","w","s","_","i","n","s","t","a","n","c","e">>

module_vpc ==
    <<"m","o","d","u","l","e",".","v","p","c">>

module_vpc_subnet_a ==
    <<"m","o","d","u","l","e",".","v","p","c",".","a","w","s","_","s","u","b","n","e","t",".","a">>

module_vpc2_subnet_a ==
    <<"m","o","d","u","l","e",".","v","p","c","2",".","a","w","s","_","s","u","b","n","e","t",".","a">>

module_net_subnet_b ==
    <<"m","o","d","u","l","e",".","n","e","t",".","a","w","s","_","s","u","b","n","e","t",".","b">>

\* A line of the resources file that holds only white space.
blank_line == <<" ">>

\* The lines a resources file is made of.
FileLines == {aws_instance_web, aws_instance, module_vpc, module_vpc_subnet_a, blank_line}

\* The resource addresses a source tfstate in S3 may record.
SrcLiveAddresses == {aws_instance_web, module_vpc_subnet_a, module_vpc2_subnet_a}

\* The tfstates the destination module may have in S3 before the run.
DestLiveStates == {{}, {module_net_subnet_b}, {module_vpc_subnet_a}}

\* Exit codes of an external command (TF_EXIT_CODES for terraform plan).
ReturnCodes == {0, 1, 2}

\* The literal 'module.' of resource_address_exists.
ModulePrefix == <<"m","o","d","u","l","e",".">>

Dot == <<".">>

\* str.startswith
StartsWith(s, prefix) ==
    /\ Len(prefix) <= Len(s)
    /\ SubSeq(s, 1, Len(prefix)) = prefix

RECURSIVE LStrip(_)
LStrip(s) ==
    IF s # <<>> /\ Head(s) = " " THEN LStrip(Tail(s)) ELSE s

RECURSIVE RStrip(_)
RStrip(s) ==
    IF s # <<>> /\ s[Len(s)] = " " THEN RStrip(SubSeq(s, 1, Len(s) - 1)) ELSE s

\* str.strip
Strip(s) == RStrip(LStrip(s))

\* Variant of ReadAddresses: a line already read is skipped.
RECURSIVE ReadAddresses_Dedup(_)
ReadAddresses_Dedup(lines) ==
    IF lines = <<>> THEN <<>>
    ELSE LET front == SubSeq(lines, 1, Len(lines) - 1)
             last == Strip(lines[Len(lines)])
         IN  ReadAddresses_Dedup(front)
             \o (IF last # <<>> /\ \A k \in 1..Len(front) : Strip(front[k]) # last
                 THEN <<last>> ELSE <<>>)

\* [line.strip() for line in lines if line.strip()]
RECURSIVE ReadAddresses(_)
ReadAddresses(lines) ==
    IF lines = <<>> THEN <<>>
    ELSE IF Strip(Head(lines)) # <<>>
         THEN <<Strip(Head(lines))>> \o ReadAddresses(Tail(lines))
         ELSE ReadAddresses(Tail(lines))

\* All files of at most n lines.
FilesUpTo(n) == UNION {[1..k -> FileLines] : k \in 0..n}

\* ------------------------------------------------------------- pure helpers
\* Variant of resource_address_exists: any address matches by prefix.
resource_address_exists_AnyPrefix(address, existing_resources) ==
    \/ address \in existing_resources
    \/ \E existing_address \in existing_resources :
          StartsWith(existing_address, address \o Dot)

resource_address_exists(address, existing_resources) ==
    IF address \in existing_resources THEN TRUE
    ELSE IF ~StartsWith(address, ModulePrefix) THEN FALSE
    ELSE LET address_prefix == address \o Dot
         IN  \E existing_address \in existing_resources :
                 StartsWith(existing_address, address_prefix)

\* Variant of MissingIn: an address is reported once however often listed.
RECURSIVE MissingIn_Dedup(_, _)
MissingIn_Dedup(addrs, existing_resources) ==
    IF addrs = <<>> THEN <<>>
    ELSE LET front == SubSeq(addrs, 1, Len(addrs) - 1)
             last == addrs[Len(addrs)]
         IN  MissingIn_Dedup(front, existing_resources)
             \o (IF /\ ~resource_address_exists(last, existing_resources)
                     /\ \A k \in 1..Len(front) : front[k] # last
                  THEN <<last>> ELSE <<>>)

\* The loop of verify_all_resources_exist that collects `missing`.
RECURSIVE MissingIn(_, _)
MissingIn(addrs, existing_resources) ==
    IF addrs = <<>> THEN <<>>
    ELSE (IF ~resource_address_exists(Head(addrs), existing_resources)
          THEN <<Head(addrs)>> ELSE <<>>)
         \o MissingIn(Tail(addrs), existing_resources)

\* Variant of StillInSrc: the source working copy is not looked at.
StillInSrc_Never(addrs, src_resources) == <<>>

\* The loop of validate_migration that collects `still_in_src`.
RECURSIVE StillInSrc(_, _)
StillInSrc(addrs, src_resources) ==
    IF addrs = <<>> THEN <<>>
    ELSE (IF resource_address_exists(Head(addrs), src_resources)
          THEN <<Head(addrs)>> ELSE <<>>)
         \o StillInSrc(Tail(addrs), src_resources)

\* The loop of validate_migration that collects `missing_in_dest`.
MissingInDest(addrs, dest_resources) == MissingIn(addrs, dest_resources)

\* ------------------------------------------------------------------- state
VARIABLES
    args,            \* the parsed command line flags
    resources_file,  \* the lines of the resources file
    s3,              \* s3[m]: the tfstate of module m in the S3 backend
    s3_initial,      \* history: s3 when the run started
    files,           \* files[f]: content of local tfstate file f
    present,         \* the local tfstate files that exist
    pulled,          \* history: pulled[m] = what the pull of module m returned
    pulls,           \* history: `terraform state pull` commands issued
    addresses,       \* main's `addresses`
    missing,         \* history: `missing` of verify_all_resources_exist
    i,               \* index of the next address of the move loop
    pc,              \* position of the run
    exit_code,       \* exit code of the process, -1 while it runs
    failed_step,     \* the step whose failure ended the run, "" if none
    moves,           \* history: `terraform state mv` commands issued
    pushes,          \* history: `terraform state push` commands issued
    plans,           \* history: `terraform plan` exit codes, in order
    validated        \* history: validate_migration returned normally

vars == <<args, resources_file, s3, s3_initial, files, present, pulled,
          pulls, addresses, missing, i, pc, exit_code, failed_step, moves, pushes,
          plans, validated>>

Modules == {"src", "dest"}

LiveFile(m) == IF m = "src" THEN "src_live" ELSE "dest_live"

BackupFile(m) == IF m = "src" THEN "src_backup" ELSE "dest_backup"

LocalFiles == {"src_live", "dest_live", "src_backup", "dest_backup"}

Flags == [dry_run : BOOLEAN, keep_local : BOOLEAN, permanent : BOOLEAN,
          planned_changes_fail : BOOLEAN]

Init ==
    /\ args \in Flags
    /\ resources_file \in FilesUpTo(MaxLines)
    /\ \E src_state \in SUBSET SrcLiveAddresses, dest_state \in DestLiveStates :
          /\ s3 = [m \in Modules |-> IF m = "src" THEN src_state ELSE dest_state]
          /\ s3_initial = s3
    /\ files = [f \in LocalFiles |-> {}]
    /\ present = {}
    /\ pulled = [m \in Modules |-> {}]
    /\ pulls = <<>>
    /\ addresses = <<>>
    /\ missing = <<>>
    /\ i = 1
    /\ pc = "check_terraform"
    /\ exit_code = -1
    /\ failed_step = ""
    /\ moves = <<>>
    /\ pushes = <<>>
    /\ plans = <<>>
    /\ validated = FALSE

\* sys.exit(code) at step `step`: the run ends in terminal position `final`.
Exit(final, code, step) ==
    /\ pc' = final
    /\ exit_code' = code
    /\ failed_step' = step

Continue(next) ==
    /\ pc' = next
    /\ UNCHANGED <<exit_code, failed_step>>

\* ------------------------------------------------------ external commands
\* `terraform state mv [-dry-run] -state src -state-out dest address address`
\* as the script relies on it: the records the command moves are the one at
\* `address` and, for a module address, those nested under it.
MvMatched(address, src_doc) ==
    {r \in src_doc : r = address \/ StartsWith(r, address \o Dot)}

\* The results the command can have: a non-zero exit code with both
\* documents as they were; exit code 0 with the records moved (there must be
\* some, and none may exist in the destination); exit code 0 with neither
\* file written (the case validate_migration is there to catch).  With
\* -dry-run nothing is written.
TerraformStateMv(address, src_doc, dest_doc, dry) ==
    LET matched == MvMatched(address, src_doc)
    IN  {[rc |-> rc, src |-> src_doc, dest |-> dest_doc] : rc \in ReturnCodes \ {0}}
        \cup {[rc |-> 0, src |-> src_doc, dest |-> dest_doc]}
        \cup (IF matched # {} /\ matched \cap dest_doc = {}
              THEN {[rc |-> 0,
                     src |-> IF dry THEN src_doc ELSE src_doc \ matched,
                     dest |-> IF dry THEN dest_doc ELSE dest_doc \cup matched]}
              ELSE {})

\* ------------------------------------------------------------ main's steps
\* Variant of MvDryRunFlag: '-dry-run' is never inserted.
MvDryRunFlag_Never(dry_run) == FALSE

\* Whether move_resource_in_tfstate inserts '-dry-run' in the command.
MvDryRunFlag(dry_run) == dry_run

\* Variant of AfterMoveLoop: validation does not depend on --dry-run.
AfterMoveLoop_AlwaysValidate == "validate"

\* main: what follows the move loop.
AfterMoveLoop == IF ~args.dry_run THEN "validate" ELSE "cleanup"

\* Variant of AfterValidate: the push does not depend on --permanent.
AfterValidate_AlwaysPush == "push_src"

\* main: what follows validate_migration.
AfterValidate == IF args.permanent THEN "push_src" ELSE "cleanup"

\* Variant of MoveLoop: the loop is not left after the last address.
MoveLoop_NoExit(addrs, k) == "move"

\* The for loop of main: the position once k-1 addresses were moved.
MoveLoop(addrs, k) == IF k <= Len(addrs) THEN "move" ELSE AfterMoveLoop

\* The answers to the confirmation prompt, stripped and lower-cased.
UserInputs == {"y", "yes", "n"}

UserConfirms(user_input) == user_input \in {"y", "yes"}

\* Variant of Decline: declining the prompt is reported as a failure.
Decline_Fails == [final |-> "UserAborted", code |-> 1]

\* main: how the run ends when the prompt is not confirmed (sys.exit(0)).
Decline == [final |-> "UserAborted", code |-> 0]

\* Variant of CommandFailed: the exit code of the command is not checked.
CommandFailed_Never(rc) == FALSE

\* run_command: subprocess.run(check=True) raises for a non-zero exit code.
CommandFailed(rc) == rc # 0

\* The file move_resource_in_tfstate passes as -state.
MvState == "src_live"

\* Variant of MvStateOut: the backup is passed as -state-out.
MvStateOut_Backup == "dest_backup"

\* The file move_resource_in_tfstate passes as -state-out.
MvStateOut == "dest_live"

\* Variant of RestoresOnDrift: the handler never restores.
RestoresOnDrift_Never(planned_changes_fail) == FALSE

\* Variant of RestoresOnDrift: the handler restores whatever the flag is.
RestoresOnDrift_Always(planned_changes_fail) == TRUE

\* except SystemExit of save_live_tfstates_to_s3: whether it restores.
RestoresOnDrift(planned_changes_fail) == ~planned_changes_fail

\* Variant of SrcDriftRestore: the handler pushes the working copy.
SrcDriftRestore_Live == [module |-> "src", file |-> "src_live"]

\* The file pushed by the handler of the source plan check.
SrcDriftRestore == [module |-> "src", file |-> "src_backup"]

\* The files pushed by the handler of the destination plan check.
DestDriftRestoreFirst == [module |-> "src", file |-> "src_backup"]

DestDriftRestoreSecond == [module |-> "src", file |-> "src_backup"]

check_terraform_installed ==
    /\ pc = "check_terraform"
    /\ \E rc \in ReturnCodes :
          IF rc # 0 THEN Exit("Aborted", rc, "preflight")
          ELSE Continue("check_aws")
    /\ UNCHANGED <<args, resources_file, s3, s3_initial, files, present,
                   pulled, pulls, addresses, missing, i, moves, pushes, plans,
                   validated>>

check_aws_credentials ==
    /\ pc = "check_aws"
    /\ \E rc \in ReturnCodes :
          IF rc # 0 THEN Exit("Aborted", rc, "preflight")
          ELSE Continue("confirm")
    /\ UNCHANGED <<args, resources_file, s3, s3_initial, files, present,
                   pulled, pulls, addresses, missing, i, moves, pushes, plans,
                   validated>>

Confirm ==
    /\ pc = "confirm"
    /\ \E user_input \in UserInputs :
          IF ~UserConfirms(user_input) THEN Exit(Decline.final, Decline.code, "")
          ELSE Continue("verify")
    /\ UNCHANGED <<args, resources_file, s3, s3_initial, files, present,
                   pulled, pulls, addresses, missing, i, moves, pushes, plans,
                   validated>>

\* Variant of VerifyOutcome: a missing address does not end the run.
VerifyOutcome_AlwaysReturn(missing_list) == "return"

\* verify_all_resources_exist: what follows the computation of `missing`.
VerifyOutcome(missing_list) == IF missing_list # <<>> THEN "exit" ELSE "return"

verify_all_resources_exist ==
    /\ pc = "verify"
    /\ \E rc \in ReturnCodes :
          IF rc # 0
          THEN /\ Exit("Aborted", rc, "list")
               /\ UNCHANGED <<addresses, missing>>
          ELSE LET existing_resources == s3["src"]
                   addrs == ReadAddresses(resources_file)
                   missing_list == MissingIn(addrs, existing_resources)
               IN  /\ missing' = missing_list
                   /\ IF VerifyOutcome(missing_list) = "exit"
                      THEN /\ Exit("Aborted", 1, "verify")
                           /\ UNCHANGED addresses
                      ELSE /\ addresses' = addrs
                           /\ Continue("pull_src")
    /\ UNCHANGED <<args, resources_file, s3, s3_initial, files, present,
                   pulled, pulls, i, moves, pushes, plans, validated>>

\* pull_and_backup_tfstate(module_path) followed by position `next`.
pull_and_backup_tfstate(m, next) ==
    /\ \E rc \in ReturnCodes :
          /\ pulls' = Append(pulls, [module |-> m, rc |-> rc])
          /\ IF rc # 0
             THEN /\ Exit("Aborted", rc, "pull")
                  /\ UNCHANGED <<files, present, pulled>>
             ELSE
               LET tfstate_content == s3[m]
                   written == [files EXCEPT ![LiveFile(m)] = tfstate_content]
               IN  /\ files' = [written EXCEPT ![BackupFile(m)] = written[LiveFile(m)]]
                   /\ present' = present \cup {LiveFile(m), BackupFile(m)}
                   /\ pulled' = [pulled EXCEPT ![m] = tfstate_content]
                   /\ Continue(next)
    /\ UNCHANGED <<args, resources_file, s3, s3_initial, addresses, missing,
                   i, moves, pushes, plans, validated>>

PullSrc ==
    /\ pc = "pull_src"
    /\ pull_and_backup_tfstate("src", "pull_dest")

PullDest ==
    /\ pc = "pull_dest"
    /\ pull_and_backup_tfstate("dest", MoveLoop(addresses, 1))

move_resource_in_tfstate ==
    /\ pc = "move"
    /\ i <= Len(addresses)
    /\ LET address == addresses[i]
           dry == MvDryRunFlag(args.dry_run)
       IN  \E result \in TerraformStateMv(address, files[MvState],
                                          files[MvStateOut], dry) :
              /\ moves' = Append(moves, [address |-> address,
                                         address_out |-> address,
                                         dry_run |-> dry, rc |-> result.rc])
              /\ IF CommandFailed(result.rc)
                 THEN /\ Exit("Aborted", result.rc, "move")
                      /\ UNCHANGED <<files, i>>
                 ELSE /\ files' = [files EXCEPT ![MvState] = result.src,
                                                ![MvStateOut] = result.dest]
                      /\ i' = i + 1
                      /\ Continue(MoveLoop(addresses, i + 1))
    /\ UNCHANGED <<args, resources_file, s3, s3_initial, present, pulled,
                   pulls, addresses, missing, pushes, plans, validated>>

\* validate_migration: whether the two lists make it exit.
ValidationFails(addrs, src_resources, dest_resources) ==
    \/ StillInSrc(addrs, src_resources) # <<>>
    \/ MissingInDest(addrs, dest_resources) # <<>>

validate_migration ==
    /\ pc = "validate"
    /\ \E rc_src \in ReturnCodes, rc_dest \in ReturnCodes :
          IF rc_src # 0 THEN /\ Exit("Aborted", rc_src, "local_list")
                             /\ UNCHANGED validated
          ELSE IF rc_dest # 0 THEN /\ Exit("Aborted", rc_dest, "local_list")
                                   /\ UNCHANGED validated
          ELSE LET src_resources == files["src_live"]
                   dest_resources == files["dest_live"]
               IN  IF ValidationFails(addresses, src_resources, dest_resources)
                   THEN /\ Exit("Aborted", 1, "validate")
                        /\ UNCHANGED validated
                   ELSE /\ validated' = TRUE
                        /\ Continue(AfterValidate)
    /\ UNCHANGED <<args, resources_file, s3, s3_initial, files, present,
                   pulled, pulls, addresses, missing, i, moves, pushes, plans>>

\* push_tfstate_to_s3(module_path, tfstate_filename): `terraform state push`
\* replaces the tfstate of module m in S3 by local file f, or fails and
\* ends the run (sys.exit of run_command).
push_tfstate_to_s3(m, f, step) ==
    \E rc \in ReturnCodes :
       /\ pushes' = Append(pushes, [module |-> m, file |-> f, rc |-> rc])
       /\ IF rc # 0
          THEN /\ Exit("Aborted", rc, step)
               /\ UNCHANGED s3
          ELSE s3' = [s3 EXCEPT ![m] = files[f]]

\* Variant of PlanRaises: a clean plan check raises too.
PlanRaises_Always(rc) == TRUE

\* validate_no_planned_changes: `terraform plan -detailed-exitcode`; it
\* raises SystemExit for every exit code but 0.
PlanRaises(rc) == rc # 0

\* save_live_tfstates_to_s3: the file pushed to the source module.
SrcPush == [module |-> "src", file |-> "src_live"]

PushSrc ==
    /\ pc = "push_src"
    /\ push_tfstate_to_s3(SrcPush.module, SrcPush.file, "push")
    /\ (pushes'[Len(pushes')].rc = 0 => Continue("plan_src"))
    /\ UNCHANGED <<args, resources_file, s3_initial, files, present, pulled,
                   pulls, addresses, missing, i, moves, plans, validated>>

PlanSrc ==
    /\ pc = "plan_src"
    /\ \E rc \in ReturnCodes :
          /\ plans' = Append(plans, [module |-> "src", rc |-> rc])
          /\ IF PlanRaises(rc) /\ RestoresOnDrift(args.planned_changes_fail)
             THEN Continue("restore_src")
             ELSE Continue("push_dest")
    /\ UNCHANGED <<args, resources_file, s3, s3_initial, files, present,
                   pulled, pulls, addresses, missing, i, moves, pushes, validated>>

RestoreSrc ==
    /\ pc = "restore_src"
    /\ push_tfstate_to_s3(SrcDriftRestore.module, SrcDriftRestore.file, "restore")
    /\ (pushes'[Len(pushes')].rc = 0 => Exit("RolledBack", 1, "drift"))
    /\ UNCHANGED <<args, resources_file, s3_initial, files, present, pulled,
                   pulls, addresses, missing, i, moves, plans, validated>>

\* Variant of DestPush: the backup of the destination is pushed.
DestPush_Backup == [module |-> "dest", file |-> "dest_backup"]

\* save_live_tfstates_to_s3: the file pushed to the destination module.
DestPush == [module |-> "dest", file |-> "dest_live"]

PushDest ==
    /\ pc = "push_dest"
    /\ push_tfstate_to_s3(DestPush.module, DestPush.file, "push")
    /\ (pushes'[Len(pushes')].rc = 0 => Continue("plan_dest"))
    /\ UNCHANGED <<args, resources_file, s3_initial, files, present, pulled,
                   pulls, addresses, missing, i, moves, plans, validated>>

PlanDest ==
    /\ pc = "plan_dest"
    /\ \E rc \in ReturnCodes :
          /\ plans' = Append(plans, [module |-> "dest", rc |-> rc])
          /\ IF PlanRaises(rc) /\ RestoresOnDrift(args.planned_changes_fail)
             THEN Continue("restore_first")
             ELSE Continue("cleanup")
    /\ UNCHANGED <<args, resources_file, s3, s3_initial, files, present,
                   pulled, pulls, addresses, missing, i, moves, pushes, validated>>

RestoreFirst ==
    /\ pc = "restore_first"
    /\ push_tfstate_to_s3(DestDriftRestoreFirst.module,
                          DestDriftRestoreFirst.file, "restore")
    /\ (pushes'[Len(pushes')].rc = 0 => Continue("restore_second"))
    /\ UNCHANGED <<args, resources_file, s3_initial, files, present, pulled,
                   pulls, addresses, missing, i, moves, plans, validated>>

RestoreSecond ==
    /\ pc = "restore_second"
    /\ push_tfstate_to_s3(DestDriftRestoreSecond.module,
                          DestDriftRestoreSecond.file, "restore")
    /\ (pushes'[Len(pushes')].rc = 0 => Exit("RolledBack", 1, "drift"))
    /\ UNCHANGED <<args, resources_file, s3_initial, files, present, pulled,
                   pulls, addresses, missing, i, moves, plans, validated>>

\* Variant of CleanupRemoves: --keep-local is not looked at.
CleanupRemoves_Always == LocalFiles

\* Variant of CleanupRemoves: the backups are left behind.
CleanupRemoves_OnlyLive ==
    IF ~args.keep_local THEN {"src_live", "dest_live"} ELSE {}

\* main: the files the cleanup removes.
CleanupRemoves == IF ~args.keep_local THEN LocalFiles ELSE {}

Cleanup ==
    /\ pc = "cleanup"
    /\ present' = present \ CleanupRemoves
    /\ Exit("Done", 0, "")
    /\ UNCHANGED <<args, resources_file, s3, s3_initial, files, pulled,
                   pulls, addresses, missing, i, moves, pushes, plans, validated>>

Next ==
    \/ check_terraform_installed
    \/ check_aws_credentials
    \/ Confirm
    \/ verify_all_resources_exist
    \/ PullSrc
    \/ PullDest
    \/ move_resource_in_tfstate
    \/ validate_migration
    \/ PushSrc
    \/ PlanSrc
    \/ RestoreSrc
    \/ PushDest
    \/ PlanDest
    \/ RestoreFirst
    \/ RestoreSecond
    \/ Cleanup

Spec == Init /\ [][Next]_vars

\* Every step of main is a straight-line statement or a blocking
\* subprocess.run / input call: as long as each of them returns, the run
\* takes its next step.
FairSpec == Spec /\ WF_vars(Next)

Terminal == pc \in {"UserAborted", "Aborted", "RolledBack", "Done"}

TypeOK ==
    /\ args \in Flags
    /\ present \subseteq LocalFiles
    /\ exit_code \in {-1} \cup ReturnCodes
    /\ Terminal <=> exit_code # -1
    /\ i \in 1..(Len(addresses) + 1)

\* ------------------------------------------------------------------ claims
Strict == ~args.planned_changes_fail

\* Some plan check of the run did not exit with code 0.
SomePlanNotClean == \E k \in 1..Len(plans) : plans[k].rc # 0

\* Every push of a backup file issued so far succeeded.
RestoresSucceeded ==
    \A k \in 1..Len(pushes) :
        pushes[k].file \in {"src_backup", "dest_backup"} => pushes[k].rc = 0

\* C1: a push to either S3 backend is issued only when --dry-run is unset,
\* --permanent is set and validate_migration has returned; as long as no
\* push was issued (in particular during the moves) both S3 tfstates are
\* what they were when the run started.
C1_PushOnlyWhenPermanentAndValidated ==
    /\ pushes # <<>> => ~args.dry_run /\ args.permanent /\ validated
    /\ ~args.permanent => pushes = <<>>
    /\ pushes = <<>> => s3 = s3_initial

\* C1: the source tfstate in S3 was replaced by a push after real moves.
C1_Witness ==
    /\ pc = "plan_src"
    /\ validated
    /\ moves # <<>>
    /\ s3["src"] # s3_initial["src"]

\* C2, as stated: in a strict permanent run whose plan check after a push
\* was not clean, the source tfstate in S3 equals the source backup when the
\* run has ended.
C2_Original ==
    (Terminal /\ args.permanent /\ Strict /\ SomePlanNotClean)
        => s3["src"] = files["src_backup"]

\* C2, amended: the same, provided every push of a backup file succeeded.
C2_RollbackRestoresSource ==
    (Terminal /\ args.permanent /\ Strict /\ SomePlanNotClean /\ RestoresSucceeded)
        => /\ pc = "RolledBack"
           /\ "src_backup" \in present
           /\ s3["src"] = files["src_backup"]
           /\ s3["src"] = pulled["src"]

\* C2: rolled back after the destination plan check, the working copy of
\* the source differing from its backup.
C2_Witness ==
    /\ pc = "RolledBack"
    /\ Len(plans) = 2
    /\ files["src_live"] # files["src_backup"]
    /\ s3["src"] = files["src_backup"]

\* The run is permanent and strict and its source plan check exited with 2.
SourceDriftStrict ==
    /\ args.permanent
    /\ Strict
    /\ plans # <<>>
    /\ plans[1] = [module |-> "src", rc |-> 2]

\* C3, as stated: after a source plan check with changes in a strict
\* permanent run, the source backup is pushed back to the source backend,
\* nothing is pushed to the destination backend, and the run ends rolled
\* back with a non-zero exit code.
C3_Original ==
    (Terminal /\ SourceDriftStrict)
        => /\ Len(pushes) = 2
           /\ pushes[2] = [module |-> "src", file |-> "src_backup", rc |-> 0]
           /\ \A k \in 1..Len(pushes) : pushes[k].module # "dest"
           /\ pc = "RolledBack"
           /\ exit_code # 0

\* C3, amended: the push of the source backup to the source backend is
\* issued, nothing is pushed to the destination backend and the exit code is
\* non-zero; the run ends rolled back (both S3 tfstates as before the run)
\* when that push succeeds, and aborted with its exit code when it fails.
C3_SourceDriftRollsBack ==
    SourceDriftStrict
        => /\ \A k \in 1..Len(pushes) : pushes[k].module # "dest"
           /\ pc \in {"restore_src", "RolledBack", "Aborted"}
           /\ Terminal =>
                /\ Len(pushes) = 2
                /\ pushes[2].module = "src"
                /\ pushes[2].file = "src_backup"
                /\ exit_code # 0
                /\ IF pushes[2].rc = 0
                   THEN pc = "RolledBack" /\ s3 = s3_initial
                   ELSE pc = "Aborted" /\ exit_code = pushes[2].rc

\* C3: rolled back after the source plan check reported changes.
C3_Witness ==
    /\ pc = "RolledBack"
    /\ SourceDriftStrict
    /\ files["src_live"] # files["src_backup"]
    /\ s3 = s3_initial

\* Every push issued so far succeeded.
AllPushesSucceeded == \A k \in 1..Len(pushes) : pushes[k].rc = 0

\* C4: when the plan check after the destination push is not clean in a
\* strict run and the pushes succeed, the rollback has restored both
\* backups: at the end the source tfstate in S3 equals the source backup and
\* the destination tfstate in S3 equals the destination backup.
C4_DestDriftRestoresBoth ==
    (Terminal /\ args.permanent /\ Strict /\ Len(plans) = 2 /\ plans[2].rc # 0
        /\ AllPushesSucceeded)
        => /\ s3["src"] = files["src_backup"]
           /\ s3["dest"] = files["dest_backup"]

\* The positions of save_live_tfstates_to_s3.
PushPositions ==
    {"push_src", "plan_src", "restore_src", "push_dest", "plan_dest",
     "restore_first", "restore_second"}

\* C5: with --dry-run, whatever the other flags, no push is issued, no plan
\* check is run, validate_migration is never entered, and the run goes from
\* the move loop to the cleanup; both S3 tfstates stay as they were.
C5_DryRunSkipsValidationAndPush ==
    args.dry_run
        => /\ pushes = <<>>
           /\ plans = <<>>
           /\ ~validated
           /\ s3 = s3_initial
           /\ pc \notin PushPositions \cup {"validate", "RolledBack"}
           /\ failed_step \notin {"local_list", "validate", "push", "restore", "drift"}

\* C5: a dry run with --permanent completed after simulated moves.
C5_Witness ==
    /\ args.dry_run
    /\ args.permanent
    /\ pc = "Done"
    /\ moves # <<>>

\* C6: in a dry run every mv command carries -dry-run, and each local
\* working copy holds what the pull of its module returned.
C6_DryRunLeavesWorkingCopies ==
    args.dry_run
        => /\ \A k \in 1..Len(moves) : moves[k].dry_run
           /\ \A m \in Modules :
                LiveFile(m) \in present => files[LiveFile(m)] = pulled[m]

\* C6: a dry run past its move loop, whose moves would have moved records.
C6_Witness ==
    /\ args.dry_run
    /\ pc = "cleanup"
    /\ Len(moves) = Len(addresses)
    /\ moves # <<>>
    /\ \A k \in 1..Len(addresses) :
          MvMatched(addresses[k], files["src_live"]) # {}

\* Address a is in the destination working copy and not in the source one.
MovedLocally(a) ==
    /\ resource_address_exists(a, files["dest_live"])
    /\ ~resource_address_exists(a, files["src_live"])

\* C7: a run that is not a dry run is past validate_migration only if every
\* requested address is found in the destination working copy and not in the
\* source one; a run that validate_migration ends has some address that is
\* not, a non-zero exit code, and no push issued.
C7_ValidationGate ==
    /\ (validated /\ {"src_live", "dest_live"} \subseteq present)
          => \A k \in 1..Len(addresses) : MovedLocally(addresses[k])
    /\ (~args.dry_run /\ pc \in PushPositions \cup {"cleanup", "Done", "RolledBack"})
          => validated
    /\ pushes # <<>> => validated
    /\ failed_step = "validate"
          => /\ pc = "Aborted"
             /\ exit_code # 0
             /\ ~validated
             /\ pushes = <<>>
             /\ s3 = s3_initial
             /\ \E k \in 1..Len(addresses) : ~MovedLocally(addresses[k])

\* C7: validate_migration ended the run for an address still in the source
\* working copy, every address being in the destination one.
C7_Witness ==
    /\ failed_step = "validate"
    /\ moves # <<>>
    /\ \A k \in 1..Len(addresses) :
          resource_address_exists(addresses[k], files["dest_live"])

\* verify_all_resources_exist has computed `missing` in this run.
VerifyRan ==
    /\ pc \notin {"check_terraform", "check_aws", "confirm", "verify", "UserAborted"}
    /\ failed_step \notin {"preflight", "list"}

\* The requested addresses: the non-blank lines of the resources file.
Requested == ReadAddresses(resources_file)

\* Number of entries of seq equal to a.
Count(a, seq) == Cardinality({k \in 1..Len(seq) : seq[k] = a})

\* Address a starts with the reserved prefix 'module.'.
IsGroupAddress(a) ==
    /\ Len(a) >= Len(ModulePrefix)
    /\ \A j \in 1..Len(ModulePrefix) : a[j] = ModulePrefix[j]

\* Address e begins with address a followed by the separator.
NestedUnder(e, a) ==
    /\ Len(e) > Len(a)
    /\ e[Len(a) + 1] = "."
    /\ \A j \in 1..Len(a) : e[j] = a[j]

\* Address a is present in the live set: literally, or by group prefix.
PresentIn(a, live) ==
    \/ a \in live
    \/ IsGroupAddress(a) /\ \E e \in live : NestedUnder(e, a)

\* C8, as stated: if all requested addresses are present in the live set of
\* the source module the missing list is empty, and each requested address
\* that is absent appears in the missing list exactly once.
C8_Original ==
    VerifyRan
        => LET live == s3_initial["src"]
           IN  /\ (\A k \in 1..Len(Requested) : PresentIn(Requested[k], live))
                     => missing = <<>>
               /\ \A k \in 1..Len(Requested) :
                     ~PresentIn(Requested[k], live)
                         => Count(Requested[k], missing) = 1

\* C8, amended: the missing list is empty if all requested addresses are
\* present, an absent address appears in it as many times as the request
\* lists it, and a present address does not appear in it.
C8_MissingOncePerEntry ==
    VerifyRan
        => LET live == s3_initial["src"]
           IN  /\ (\A k \in 1..Len(Requested) : PresentIn(Requested[k], live))
                     => missing = <<>>
               /\ \A k \in 1..Len(Requested) :
                     Count(Requested[k], missing) =
                         IF PresentIn(Requested[k], live) THEN 0
                         ELSE Count(Requested[k], Requested)

\* C8: verify has reported an absent address that the request lists twice.
C8_Witness ==
    /\ VerifyRan
    /\ Len(Requested) = 2
    /\ Requested[1] = Requested[2]
    /\ Len(missing) = 2

\* C9: an address is reported missing exactly when it is neither literally
\* in the live set nor a 'module.' address with a live address nested under
\* it ('.' after it); request [aws_instance.web, module.vpc] against live
\* set {aws_instance.web} gives missing = [module.vpc].
C9_ExistencePredicate ==
    VerifyRan
        => LET live == s3_initial["src"]
           IN  /\ \A k \in 1..Len(Requested) :
                     (\E j \in 1..Len(missing) : missing[j] = Requested[k])
                         <=> ~PresentIn(Requested[k], live)
               /\ \A k \in 1..Len(Requested) :
                     resource_address_exists(Requested[k], live)
                         <=> PresentIn(Requested[k], live)
               /\ (Requested = <<aws_instance_web, module_vpc>>
                     /\ live = {aws_instance_web})
                     => missing = <<module_vpc>>

\* C9: the request of the scenario against a live set with aws_instance.web
\* and a module whose name only begins like module.vpc.
C9_Witness ==
    /\ VerifyRan
    /\ Requested = <<aws_instance_web, module_vpc>>
    /\ s3_initial["src"] = {aws_instance_web, module_vpc2_subnet_a}
    /\ missing = <<module_vpc>>

BackupPushed ==
    \E k \in 1..Len(pushes) : pushes[k].file \in {"src_backup", "dest_backup"}

\* The positions of the two except SystemExit handlers that restore.
RestorePositions == {"restore_src", "restore_first", "restore_second"}

\* C11: a plan check that fails (exit code other than 0 and 2) ends the
\* run whatever --planned-changes-fail is: after it there is no push of a
\* working copy, no other plan check and no completion; and a plan check
\* that reports changes (exit code 2) ends the run only in a strict run.
C11_FailedPlanIsFatal ==
    /\ (\E k \in 1..Len(plans) : plans[k].rc \notin {0, 2})
          => /\ plans[Len(plans)].rc \notin {0, 2}
             /\ \A k \in 1..(Len(plans) - 1) : plans[k].rc \in {0, 2}
             /\ pc \in RestorePositions \cup {"RolledBack", "Aborted"}
    /\ (plans # <<>> /\ plans[Len(plans)].rc = 2
          /\ pc \in RestorePositions \cup {"RolledBack"})
          => Strict

\* C12, as stated: in a permanent run with --planned-changes-fail in which
\* a plan check reported changes, no backup is pushed, the destination push
\* follows the source push, and the run ends completed with exit code 0.
C12_Original ==
    (Terminal /\ args.permanent /\ ~Strict
        /\ \E k \in 1..Len(plans) : plans[k].rc = 2)
        => /\ ~BackupPushed
           /\ Len(pushes) = 2
           /\ pushes[2].module = "dest"
           /\ pushes[2].file = "dest_live"
           /\ pc = "Done"
           /\ exit_code = 0

\* C12, amended: no backup is pushed and the destination push follows the
\* source push; the run ends completed with exit code 0 when the
\* destination push succeeds, and aborted with its exit code when it fails.
C12_ToleratedDriftContinues ==
    (args.permanent /\ ~Strict /\ \E k \in 1..Len(plans) : plans[k].rc = 2)
        => /\ ~BackupPushed
           /\ pc \in {"push_dest", "plan_dest", "cleanup", "Done", "Aborted"}
           /\ Len(pushes) >= 2
                => pushes[2].module = "dest" /\ pushes[2].file = "dest_live"
           /\ Terminal
                => /\ Len(pushes) = 2
                   /\ IF pushes[2].rc = 0
                      THEN pc = "Done" /\ exit_code = 0 /\ Len(plans) = 2
                      ELSE /\ pc = "Aborted"
                           /\ failed_step = "push"
                           /\ exit_code = pushes[2].rc

\* C12: a run completed although both plan checks reported changes.
C12_Witness ==
    /\ pc = "Done"
    /\ ~Strict
    /\ Len(plans) = 2
    /\ plans[1].rc = 2
    /\ plans[2].rc = 2
    /\ s3["dest"] # s3_initial["dest"]

\* C13: as the run announces, without --planned-changes-fail a permanent
\* run whose pushes succeed completes even if a plan check reported changes,
\* and with --planned-changes-fail a run in which a plan check was not clean
\* ends with a non-zero exit code.
C13_AdviceIsWhatHappens ==
    /\ (Terminal /\ args.permanent /\ ~args.planned_changes_fail
          /\ AllPushesSucceeded
          /\ (\E k \in 1..Len(plans) : plans[k].rc = 2)
          /\ (\A j \in 1..Len(plans) : plans[j].rc \in {0, 2}))
          => pc = "Done" /\ exit_code = 0
    /\ (Terminal /\ args.permanent /\ args.planned_changes_fail
          /\ SomePlanNotClean)
          => exit_code # 0

\* The local files that the pulls of this run have created.
CreatedFiles ==
    UNION {{LiveFile(pulls[k].module), BackupFile(pulls[k].module)} :
              k \in {j \in 1..Len(pulls) : pulls[j].rc = 0}}

\* The steps after the pulls whose failure ends the run.
PostPullFailures ==
    {"move", "local_list", "validate", "push", "restore", "drift"}

\* C14: a file that a pull created is missing only in a completed run
\* without --keep-local; a run ended by a failure after the pulls (move,
\* validation, push, restore push, rollback) still has all four files.
C14_NoDeletionOnFailure ==
    /\ CreatedFiles \ present # {} => pc = "Done" /\ ~args.keep_local
    /\ failed_step \in PostPullFailures
          => /\ exit_code # 0
             /\ CreatedFiles = LocalFiles
             /\ present = LocalFiles

\* C14: the run was rolled back and the four files are still there.
C14_Witness ==
    /\ pc = "RolledBack"
    /\ ~args.keep_local
    /\ present = LocalFiles
    /\ files["src_live"] # files["src_backup"]

\* C15: in a completed run, without --keep-local none of the four files of
\* the pulls exists any more, and with --keep-local all four exist.
C15_CleanupOnCompletion ==
    pc = "Done"
        => /\ CreatedFiles = LocalFiles
           /\ present = IF args.keep_local THEN LocalFiles ELSE {}

\* C15: a permanent run completed after both pushes, its files removed.
C15_Witness ==
    /\ pc = "Done"
    /\ ~args.keep_local
    /\ Len(pushes) = 2
    /\ present = {}

\* C16: the exit code of an ended run is 0 exactly when the run completed
\* or the prompt was declined, and then nothing was verified, pulled, moved
\* or pushed; every run ended by a failed step or a rollback has a non-zero
\* exit code.
C16_ExitCode ==
    /\ Terminal => (exit_code = 0 <=> pc \in {"Done", "UserAborted"})
    /\ pc = "UserAborted"
          => /\ missing = <<>> /\ addresses = <<>>
             /\ pulls = <<>> /\ present = {}
             /\ moves = <<>>
             /\ pushes = <<>> /\ plans = <<>>
             /\ s3 = s3_initial
    /\ failed_step # "" => Terminal /\ exit_code # 0
    /\ pc \in {"Aborted", "RolledBack"} => failed_step # ""

\* C16: the prompt was declined.
C16_Witness ==
    /\ pc = "UserAborted"
    /\ exit_code = 0
    /\ Len(resources_file) = 2

\* A line of the resources file with a character that is not white space.
IsEntry(line) == \E j \in 1..Len(line) : line[j] # " "

\* The entries of the request: the non-blank lines, in the order of the file.
RequestEntries == SelectSeq(resources_file, IsEntry)

\* The move loop has run to its end.
MoveLoopCompleted ==
    \/ pc \in PushPositions \cup {"validate", "cleanup", "Done", "RolledBack"}
    \/ failed_step \in PostPullFailures \ {"move"}

\* C17: the k-th mv command is for the k-th entry of the request, with the
\* same address as source and as destination name; when the loop has run to
\* its end there is one mv per entry, duplicates included.
C17_OneMovePerEntryInOrder ==
    /\ Len(moves) <= Len(RequestEntries)
    /\ \A k \in 1..Len(moves) :
          /\ moves[k].address = Strip(RequestEntries[k])
          /\ moves[k].address_out = moves[k].address
    /\ MoveLoopCompleted => Len(moves) = Len(RequestEntries)

\* C17: the loop has moved an address that the request lists twice, twice.
C17_Witness ==
    /\ MoveLoopCompleted
    /\ Len(moves) = 2
    /\ moves[1].address = moves[2].address
    /\ RequestEntries[1] = RequestEntries[2]

\* The last mv command issued has failed.
LastMoveFailed == moves # <<>> /\ moves[Len(moves)].rc # 0

\* C18: a mv command that fails is the last one issued and ends the run
\* with its exit code: no validation, no push, no plan check follows, the
\* local files stay; and the step that fails writes nothing, so the moves
\* applied before it are left as they are in the working copies.
C18_MoveFailureAborts ==
    /\ [](/\ \A k \in 1..Len(moves) : moves[k].rc # 0 => k = Len(moves)
          /\ LastMoveFailed
                => /\ pc = "Aborted"
                   /\ failed_step = "move"
                   /\ exit_code = moves[Len(moves)].rc
                   /\ i = Len(moves)
                   /\ ~validated
                   /\ pushes = <<>>
                   /\ plans = <<>>
                   /\ present = LocalFiles)
    /\ [][(moves' # moves /\ moves'[Len(moves')].rc # 0)
              => files' = files /\ present' = present /\ s3' = s3]_vars

\* C18: the second of two moves failed after the first had moved records.
C18_Witness ==
    /\ failed_step = "move"
    /\ Len(moves) = 2
    /\ moves[1].rc = 0
    /\ files["src_live"] # files["src_backup"]
    /\ files["dest_live"] # files["dest_backup"]

\* The pushes of a working copy, in the order they were issued.
IsLivePush(p) == p.file \in {"src_live", "dest_live"}

LivePushes == SelectSeq(pushes, IsLivePush)

\* C19: the first push is the source working copy and the first plan check
\* is on the source, after that push succeeded; the destination working
\* copy is pushed at most once, as the second push, after the source plan
\* check was clean or reported changes that the run tolerates; the plan
\* check on the destination is the second one, after the destination push
\* succeeded.
C19_RemoteOperationsInOrder ==
    /\ Len(LivePushes) <= 2
    /\ Len(plans) <= 2
    /\ pushes # <<>>
          => pushes[1] \in {[module |-> "src", file |-> "src_live", rc |-> rc] :
                               rc \in ReturnCodes}
    /\ \A k \in 1..Len(pushes) :
          (pushes[k].module = "dest" \/ pushes[k].file = "dest_live")
              => /\ k = 2
                 /\ pushes[k].module = "dest"
                 /\ pushes[k].file = "dest_live"
                 /\ pushes[1].rc = 0
                 /\ plans # <<>>
                 /\ plans[1].rc = 0 \/ (plans[1].rc = 2 /\ ~Strict)
    /\ Len(plans) >= 1
          => /\ plans[1].module = "src"
             /\ pushes # <<>>
             /\ pushes[1].rc = 0
    /\ Len(plans) = 2
          => /\ plans[2].module = "dest"
             /\ Len(pushes) >= 2
             /\ pushes[2].rc = 0
    /\ Len(pushes) >= 2 => plans # <<>>

\* C20: a backup file exists exactly when the working copy of its module
\* does, so it is there before the first mv; as long as it exists it holds
\* what the pull of its module returned; and a backup is pushed only by a
\* rollback, in a strict run after a plan check that was not clean.
C20_BackupKeepsPulledState ==
    /\ \A m \in Modules :
          /\ BackupFile(m) \in present <=> LiveFile(m) \in present
          /\ BackupFile(m) \in present => files[BackupFile(m)] = pulled[m]
          /\ BackupFile(m) \in CreatedFiles => files[BackupFile(m)] = pulled[m]
    /\ (moves # <<>> /\ pc # "Done") => present = LocalFiles
    /\ moves # <<>> => CreatedFiles = LocalFiles
    /\ BackupPushed => Strict /\ SomePlanNotClean

\* C20: after a real move the backups still hold what was pulled, while the
\* working copies do not.
C20_Witness ==
    /\ pc = "validate"
    /\ present = LocalFiles
    /\ files["src_backup"] = pulled["src"]
    /\ files["dest_backup"] = pulled["dest"]
    /\ files["src_live"] # pulled["src"]
    /\ files["dest_live"] # pulled["dest"]

\* The records of a live set that a request for address a designates: the
\* address itself, and for a 'module.' address the records nested under it.
RecordsOf(a, live) ==
    {e \in live : e = a \/ (IsGroupAddress(a) /\ NestedUnder(e, a))}

\* C21: when a run has ended, however it ended, each requested address that
\* was in the source tfstate in S3 before the run is, with all its records,
\* in the source or the destination tfstate in S3, or else the four local
\* files still exist and the source backup holds what S3 held before the run.
C21_NoResourceUnrecoverable ==
    Terminal
        => \A k \in 1..Len(Requested) :
              LET a == Requested[k]
              IN  PresentIn(a, s3_initial["src"])
                    => \/ /\ PresentIn(a, s3["src"]) \/ PresentIn(a, s3["dest"])
                          /\ RecordsOf(a, s3_initial["src"])
                                \subseteq (s3["src"] \cup s3["dest"])
                       \/ /\ present = LocalFiles
                          /\ files["src_backup"] = s3_initial["src"]

\* C21: a permanent run completed and removed its files; a requested address
\* has left the source tfstate in S3 and is in the destination one.
C21_Witness ==
    /\ pc = "Done"
    /\ present = {}
    /\ \E k \in 1..Len(Requested) :
          /\ PresentIn(Requested[k], s3_initial["src"])
          /\ ~PresentIn(Requested[k], s3["src"])
          /\ ~PresentIn(Requested[k], s3_initial["dest"])
          /\ PresentIn(Requested[k], s3["dest"])

\* The k-th push issued is the push of a backup file.
IsBackupPush(k) == pushes[k].file \in {"src_backup", "dest_backup"}

\* C22: a backup file is pushed only in a permanent run without --dry-run
\* and without --planned-changes-fail, after a working copy was pushed and
\* when the last plan check, the one after the last push of a working copy,
\* was not clean, every push before it having succeeded; after a clean plan check the run is not in a restore handler;
\* a failed push of a working copy is the last push of the run, and a failed
\* destination push leaves the source tfstate in S3 as the source working
\* copy and the destination one as it was, no backup pushed.
C22_BackupPushOnlyOnDrift ==
    /\ \A k \in 1..Len(pushes) :
          IsBackupPush(k)
              => /\ args.permanent
                 /\ ~args.dry_run
                 /\ Strict
                 /\ k > 1
                 /\ IsLivePush(pushes[1])
                 /\ Len(LivePushes) = Len(plans)
                 /\ \A j \in 1..(k - 1) : pushes[j].rc = 0
                 /\ plans # <<>>
                 /\ plans[Len(plans)].rc # 0
    /\ (pc \in RestorePositions \/ pc = "RolledBack")
          => Strict /\ plans # <<>> /\ plans[Len(plans)].rc # 0
    /\ (plans = <<>> \/ plans[Len(plans)].rc = 0 \/ ~Strict)
          => ~BackupPushed
    /\ \A k \in 1..Len(pushes) :
          (IsLivePush(pushes[k]) /\ pushes[k].rc # 0)
              => /\ k = Len(pushes)
                 /\ pc = "Aborted"
                 /\ failed_step = "push"
                 /\ ~BackupPushed
    /\ (Len(pushes) >= 2 /\ pushes[2].file = "dest_live" /\ pushes[2].rc # 0)
          => /\ s3["src"] = files["src_live"]
             /\ s3["dest"] = s3_initial["dest"]
             /\ Len(pushes) = 2

\* C22: the source backup was pushed after the plan check on the source
\* failed (exit code 1) in a strict run.
C22_Witness ==
    /\ Strict
    /\ Len(plans) = 1
    /\ plans[1].rc = 1
    /\ Len(pushes) = 2
    /\ IsBackupPush(2)
    /\ pushes[2].rc = 0
    /\ s3["src"] = files["src_backup"]
    /\ files["src_live"] # files["src_backup"]

\* The steps of main in program order.
StepsInOrder ==
    <<"check_terraform", "check_aws", "confirm", "verify", "pull_src",
      "pull_dest", "move", "validate", "push_src", "plan_src", "restore_src",
      "push_dest", "plan_dest", "restore_first", "restore_second", "cleanup">>

\* The place of position p in program order; the four ends come last.
RankOf(p) ==
    IF \E k \in 1..Len(StepsInOrder) : StepsInOrder[k] = p
    THEN CHOOSE k \in 1..Len(StepsInOrder) : StepsInOrder[k] = p
    ELSE Len(StepsInOrder) + 1

\* The k-th entry of a command log has a non-zero exit code.
FailedAt(log, k) == log[k].rc # 0

\* C23: every run ends (user-aborted, aborted, rolled back or completed)
\* and nothing happens after its end; the loop issues at most one mv per
\* requested address; a pull, mv or push that fails is the last command of
\* its kind and ends the run, each module is pulled and plan-checked at most
\* once and each working copy pushed at most once; and every step of the run
\* goes forward in program order, the move loop going to its next address.
C23_EveryRunTerminates ==
    /\ <>Terminal
    /\ [](/\ Len(moves) <= Len(Requested)
          /\ i <= Len(Requested) + 1
          /\ \A k \in 1..Len(pulls) :
                FailedAt(pulls, k) => k = Len(pulls) /\ pc = "Aborted"
          /\ \A k \in 1..Len(moves) :
                FailedAt(moves, k) => k = Len(moves) /\ pc = "Aborted"
          /\ \A k \in 1..Len(pushes) :
                FailedAt(pushes, k) => k = Len(pushes) /\ pc = "Aborted"
          /\ \A j, k \in 1..Len(pulls) :
                pulls[j].module = pulls[k].module => j = k
          /\ \A j, k \in 1..Len(plans) :
                plans[j].module = plans[k].module => j = k
          /\ \A j, k \in 1..Len(pushes) :
                (IsLivePush(pushes[j]) /\ pushes[j] = pushes[k]) => j = k
          /\ failed_step # "" => Terminal
          /\ Terminal
                => Cardinality({o \in {"UserAborted", "Aborted", "RolledBack",
                                       "Done"} : pc = o}) = 1)
    /\ [][/\ ~Terminal
          /\ \/ RankOf(pc') > RankOf(pc)
             \/ /\ pc = "move"
                /\ pc' = "move"
                /\ i' = i + 1
                /\ Len(moves') = Len(moves) + 1
                /\ ~FailedAt(moves', Len(moves'))]_vars

\* C23: the longest run has ended: two addresses moved, both working copies
\* pushed, and the second restore push of the rollback failed.
C23_Witness ==
    /\ pc = "Aborted"
    /\ failed_step = "restore"
    /\ Len(Requested) = 2
    /\ Len(moves) = 2
    /\ Len(plans) = 2
    /\ Len(pushes) = 4

====
